---------------------------- MODULE Spec2Model ----------------------------
(***************************************************************************)
(* A model of radiora (src/radiora/__init__.py).                           *)
(*                                                                         *)
(* FeedbackQueue: the lock, the wake event, the buffer, the running flag,  *)
(* the observer table and the dispatch thread, with the public operations  *)
(* report_feedback, set_feedback_observer and stop called by concurrent    *)
(* threads and, re-entrantly, by observer callbacks (Spec, FairSpec).      *)
(* Granularity: a block of statements executed with the lock held is one   *)
(* step for a caller (its with block) and one step per loop iteration for  *)
(* the dispatch thread; every access made without the lock (the assert of  *)
(* stop, the return value of _process_queue, the wait on the event, the    *)
(* call of the observer, join) is a step of its own.                       *)
(*                                                                         *)
(* create_feedback_command and RadioRA._send_command as functions on text  *)
(* (CodecSpec), and RadioRA with its reader thread, handle_line and stop   *)
(* on top of the queue (FacadeSpec).                                       *)
(***************************************************************************)
EXTENDS Naturals, Sequences, FiniteSets, TLC

\* ------------------------------------------------------------------ bounds
\* Total number of report_feedback calls in a run.
MaxItems == 2
\* Total number of set_feedback_observer calls in a run.
MaxRegs == 2
\* Total number of stop calls in a run.
MaxStops == 2

\* ------------------------------------------------------------ the universe
\* The thread started by FeedbackQueue.__init__.
Dispatch == "dispatch"
\* Threads of the program that call the queue's public operations: the
\* transport's reader thread (RadioRA.LineReader.handle_line) and a client.
Callers == {"transport", "client"}
Threads == Callers \cup {Dispatch}
\* Who calls what: the reader thread reports, the client registers, either may
\* stop; a callback, on the dispatch thread, may call any of the three.
Reporters == {"transport", Dispatch}
Registrars == {"client", Dispatch}
Stoppers == Threads
NoThread == "nobody"

\* Concrete feedback classes an item may have, and the base class under which
\* the wildcard observer is stored.
FeedbackCommand == "FeedbackCommand"
Classes == {"LocalZoneChange", "MasterControlButtonPress"}
Keys == Classes \cup {FeedbackCommand}
\* The feedback_class argument None of set_feedback_observer.
NoClass == "None"

\* Observer callbacks the clients register.
Callbacks == {"f", "g"}
\* A key that is not in the _feedback_functions dict.
Absent == "absent"
\* The local feedback_function = None of _process_queue.
NoFunction == "None"

NoItem == [id |-> 0, cls |-> "none", raw |-> <<>>]
NoCur == [item |-> NoItem, key |-> Absent, fn |-> NoFunction]
NoArg == [op |-> "none", cls |-> "none", fn |-> "none", late |-> FALSE, raw |-> <<>>]

VARIABLES
    lock,                \* _lock: the thread holding it, or NoThread
    check_queue,         \* _check_queue: whether the event is set
    queue,               \* _queue
    continue_running,    \* _continue_running
    feedback_functions,  \* _feedback_functions: key -> callback or Absent
    pc,                  \* each thread's position
    arg,                 \* each thread's current call: its arguments
    cur,                 \* _process_queue's locals feedback, feedback_function
    inCallback,          \* the threads that are executing an observer callback
    nReports, nRegs, nStops,   \* calls begun so far
    nextId,              \* items appended so far (an item's id is its rank)
    delivered,           \* history: the callback invocations begun, in order
    popped,              \* history: ids popped by _process_queue
    discarded,           \* history: ids in the buffer when stop cleared the flag
    stopsReturned,       \* history: stop calls that returned normally
    results,             \* history: outcomes of completed calls
    line,                \* the raw line last handed to create_feedback_command
    decoded,             \* what create_feedback_command made of it
    sent,                \* the outcome of the last _send_command
    radioStop,           \* RadioRA.stop: the statement it has reached
    found                \* what the scene and control groups return for decoded

vars == <<lock, check_queue, queue, continue_running, feedback_functions, pc, arg,
          cur, inCallback, nReports, nRegs, nStops, nextId, delivered, popped,
          discarded, stopsReturned, results, line, decoded, sent, radioStop,
          found>>

shared == <<lock, check_queue, queue, continue_running, feedback_functions>>
counters == <<nReports, nRegs, nStops>>
history == <<delivered, popped, discarded, stopsReturned, results>>
facade == <<line, decoded, sent, radioStop, found>>

\* ---------------------------------------------------------------- helpers
Ids(q) == {q[i].id : i \in 1..Len(q)}

\* Where a thread continues when a public operation ends: inside the callback
\* that made the call, or in the caller's own code.
Ret(t) == IF t \in inCallback THEN "cb" ELSE "idle"

\* A thread that may begin a public operation: a caller between calls, or the
\* dispatch thread inside a callback.
CanCall(t) == pc[t] = Ret(t) /\ (t = Dispatch => t \in inCallback)

Outcome(t, res) == [op |-> arg[t].op, late |-> arg[t].late, result |-> res]

\* FeedbackQueue.__init__: empty buffer, running, no observers, thread started.
QueueInit ==
    /\ lock = NoThread
    /\ check_queue = FALSE
    /\ queue = <<>>
    /\ continue_running = TRUE
    /\ feedback_functions = [k \in Keys |-> Absent]
    /\ pc = [t \in Threads |-> IF t = Dispatch THEN "pq_acquire" ELSE "idle"]
    /\ arg = [t \in Threads |-> NoArg]
    /\ cur = NoCur
    /\ inCallback = {}
    /\ nReports = 0 /\ nRegs = 0 /\ nStops = 0
    /\ nextId = 0
    /\ delivered = <<>>
    /\ popped = {}
    /\ discarded = {}
    /\ stopsReturned = 0
    /\ results = {}

\* Nothing received, nothing sent, RadioRA.stop not called.
NoLine == <<>>
NoFeedback == [class |-> "none"]
NoSend == [command |-> <<>>, system |-> <<>>, written |-> <<>>, raised |-> "none"]
\* No group has been asked for a zone or a control: the groups a client keeps
\* are named by GroupNames.
GroupNames == {"empty", "house"}
NoLookup ==
    [zone |-> [g \in GroupNames |-> [raised |-> "not called", value |-> <<>>]],
     control |-> [g \in GroupNames |-> [raised |-> "not called", value |-> <<>>]]]

FacadeInit ==
    /\ line = NoLine
    /\ decoded = NoFeedback
    /\ sent = NoSend
    /\ radioStop = "none"
    /\ found = NoLookup

\* RadioRA.__init__: the queue constructed, the reader thread started.
Init == QueueInit /\ FacadeInit


\* ------------------------------------------------- the dispatch thread
\* Mutant of Pop: self._queue.pop(), which takes the newest item.
PopLast(q) == [item |-> q[Len(q)], rest |-> SubSeq(q, 1, Len(q) - 1)]

\* Mutant of Pop: self._queue[0], which leaves the item in the buffer.
PopPeek(q) == [item |-> Head(q), rest |-> q]

\* self._queue.pop(0): the head item, and the buffer without it.
Pop(q) == [item |-> Head(q), rest |-> Tail(q)]

\* Mutant of Resolve: the lookup with its two tests in the other order, the
\* entry stored under FeedbackCommand first.
ResolveWildcardFirst(item) ==
    IF feedback_functions[FeedbackCommand] # Absent
    THEN [key |-> FeedbackCommand, fn |-> feedback_functions[FeedbackCommand]]
    ELSE IF feedback_functions[item.cls] # Absent
         THEN [key |-> item.cls, fn |-> feedback_functions[item.cls]]
         ELSE [key |-> Absent, fn |-> NoFunction]

\* The observer lookup of _process_queue: the entry of the item's exact class
\* if the dict has one, else the entry stored under FeedbackCommand if the
\* dict has one, else None.
Resolve(item) ==
    IF feedback_functions[item.cls] # Absent
    THEN [key |-> item.cls, fn |-> feedback_functions[item.cls]]
    ELSE IF feedback_functions[FeedbackCommand] # Absent
         THEN [key |-> FeedbackCommand, fn |-> feedback_functions[FeedbackCommand]]
         ELSE [key |-> Absent, fn |-> NoFunction]

\* The condition of _process_queue's while loop.
LoopCondition == continue_running /\ Len(queue) > 0

\* self._lock.acquire() at the top of _process_queue.
PQ_Acquire ==
    /\ pc[Dispatch] = "pq_acquire"
    /\ lock = NoThread
    /\ lock' = Dispatch
    /\ pc' = [pc EXCEPT ![Dispatch] = "pq_while"]
    /\ UNCHANGED <<check_queue, queue, continue_running, feedback_functions, arg, cur,
                   inCallback, counters, nextId, history>>
    /\ UNCHANGED facade

\* Mutant of PQ_While: the loop without self._lock.release() before the
\* callback.
PQ_WhileKeepsLock ==
    /\ pc[Dispatch] = "pq_while"
    /\ lock = Dispatch
    /\ IF LoopCondition
       THEN LET p == Pop(queue)
                r == Resolve(p.item)
            IN /\ queue' = p.rest
               /\ popped' = popped \cup {p.item.id}
               /\ IF r.fn # NoFunction
                  THEN /\ cur' = [item |-> p.item, key |-> r.key, fn |-> r.fn]
                       /\ pc' = [pc EXCEPT ![Dispatch] = "pq_call"]
                       /\ UNCHANGED lock
                  ELSE /\ UNCHANGED <<cur, lock, pc>>
               /\ UNCHANGED check_queue
       ELSE /\ check_queue' = FALSE
            /\ lock' = NoThread
            /\ pc' = [pc EXCEPT ![Dispatch] = "pq_return"]
            /\ UNCHANGED <<queue, popped, cur>>
    /\ UNCHANGED <<continue_running, feedback_functions, arg, inCallback, counters,
                   nextId, delivered, discarded, stopsReturned, results>>
    /\ UNCHANGED facade

\* One evaluation of the while condition, lock held. When it is true: pop the
\* head and look its observer up; with an observer, release the lock and go on
\* to the call, without one evaluate the condition again. When it is false:
\* self._check_queue.clear(), self._lock.release(), and go on to the return.
PQ_While ==
    /\ pc[Dispatch] = "pq_while"
    /\ lock = Dispatch
    /\ IF LoopCondition
       THEN LET p == Pop(queue)
                r == Resolve(p.item)
            IN /\ queue' = p.rest
               /\ popped' = popped \cup {p.item.id}
               /\ IF r.fn # NoFunction
                  THEN /\ cur' = [item |-> p.item, key |-> r.key, fn |-> r.fn]
                       /\ lock' = NoThread
                       /\ pc' = [pc EXCEPT ![Dispatch] = "pq_call"]
                  ELSE /\ UNCHANGED <<cur, lock, pc>>
               /\ UNCHANGED check_queue
       ELSE /\ check_queue' = FALSE
            /\ lock' = NoThread
            /\ pc' = [pc EXCEPT ![Dispatch] = "pq_return"]
            /\ UNCHANGED <<queue, popped, cur>>
    /\ UNCHANGED <<continue_running, feedback_functions, arg, inCallback, counters,
                   nextId, delivered, discarded, stopsReturned, results>>
    /\ UNCHANGED facade

\* The record of one callback invocation begun by thread t: the item's id,
\* the invoking thread, whether another callback was executing, whether the
\* callback was no longer the one stored under the key it was found under
\* (a set_feedback_observer call stores and returns in one step, so that is:
\* a call replacing it has returned), and whether a stop() had returned.
Invocation(t) ==
    [id |-> cur.item.id,
     thread |-> t,
     concurrent |-> inCallback # {},
     stale |-> feedback_functions[cur.key] # cur.fn,
     afterStop |-> stopsReturned > 0]

\* feedback_function(feedback): the callback begins, the lock not held.
PQ_Invoke ==
    /\ pc[Dispatch] = "pq_call"
    /\ delivered' = Append(delivered, Invocation(Dispatch))
    /\ inCallback' = inCallback \cup {Dispatch}
    /\ pc' = [pc EXCEPT ![Dispatch] = "cb"]
    /\ UNCHANGED <<shared, arg, cur, counters, nextId, popped, discarded,
                   stopsReturned, results>>
    /\ UNCHANGED facade

\* The callback returns to _process_queue.
CallbackReturn ==
    /\ pc[Dispatch] = "cb"
    /\ Dispatch \in inCallback
    /\ inCallback' = inCallback \ {Dispatch}
    /\ cur' = NoCur
    /\ pc' = [pc EXCEPT ![Dispatch] = "pq_reacquire"]
    /\ UNCHANGED <<shared, arg, counters, nextId, history>>
    /\ UNCHANGED facade

\* The outcome recorded when an observer callback raises.
CallbackFault == [op |-> "callback", late |-> FALSE, result |-> "raised"]

\* Mutant of CallbackRaise: the call in a try/finally whose finally clause
\* takes the lock again before the exception goes on.
CallbackRaiseHoldsLock ==
    /\ pc[Dispatch] = "cb"
    /\ Dispatch \in inCallback
    /\ lock = NoThread
    /\ lock' = Dispatch
    /\ inCallback' = inCallback \ {Dispatch}
    /\ cur' = NoCur
    /\ results' = results \cup {CallbackFault}
    /\ pc' = [pc EXCEPT ![Dispatch] = "dead"]
    /\ UNCHANGED <<check_queue, queue, continue_running, feedback_functions, arg,
                   counters, nextId, delivered, popped, discarded, stopsReturned>>
    /\ UNCHANGED facade

\* Mutant of CallbackRaise: the call wrapped in a try/except that swallows the
\* exception, the loop going on.
CallbackRaiseCaught ==
    /\ pc[Dispatch] = "cb"
    /\ Dispatch \in inCallback
    /\ inCallback' = inCallback \ {Dispatch}
    /\ cur' = NoCur
    /\ results' = results \cup {CallbackFault}
    /\ pc' = [pc EXCEPT ![Dispatch] = "pq_reacquire"]
    /\ UNCHANGED <<shared, arg, counters, nextId, delivered, popped, discarded,
                   stopsReturned>>
    /\ UNCHANGED facade

\* The callback raises: nothing in _process_queue or _thread_process_queue
\* catches, so the exception ends the thread.
CallbackRaise ==
    /\ pc[Dispatch] = "cb"
    /\ Dispatch \in inCallback
    /\ inCallback' = inCallback \ {Dispatch}
    /\ cur' = NoCur
    /\ results' = results \cup {CallbackFault}
    /\ pc' = [pc EXCEPT ![Dispatch] = "dead"]
    /\ UNCHANGED <<shared, arg, counters, nextId, delivered, popped, discarded,
                   stopsReturned>>
    /\ UNCHANGED facade

\* self._lock.acquire() after the callback.
PQ_Reacquire ==
    /\ pc[Dispatch] = "pq_reacquire"
    /\ lock = NoThread
    /\ lock' = Dispatch
    /\ pc' = [pc EXCEPT ![Dispatch] = "pq_while"]
    /\ UNCHANGED <<check_queue, queue, continue_running, feedback_functions, arg, cur,
                   inCallback, counters, nextId, history>>
    /\ UNCHANGED facade

\* return self._continue_running, read without the lock, and the test of
\* _thread_process_queue's while: wait next, or leave the loop and end.
PQ_Return ==
    /\ pc[Dispatch] = "pq_return"
    /\ pc' = [pc EXCEPT ![Dispatch] = IF continue_running THEN "wait" ELSE "done"]
    /\ UNCHANGED <<shared, arg, cur, inCallback, counters, nextId, history>>
    /\ UNCHANGED facade

\* Mutant of Wait: an event that resets itself when the wait returns.
WaitAutoReset ==
    /\ pc[Dispatch] = "wait"
    /\ check_queue
    /\ check_queue' = FALSE
    /\ pc' = [pc EXCEPT ![Dispatch] = "pq_acquire"]
    /\ UNCHANGED <<lock, queue, continue_running, feedback_functions, arg, cur,
                   inCallback, counters, nextId, history>>
    /\ UNCHANGED facade

\* self._check_queue.wait(): returns once the event is set (and leaves it set).
Wait ==
    /\ pc[Dispatch] = "wait"
    /\ check_queue
    /\ pc' = [pc EXCEPT ![Dispatch] = "pq_acquire"]
    /\ UNCHANGED <<shared, arg, cur, inCallback, counters, nextId, history>>
    /\ UNCHANGED facade

DispatchStep ==
    \/ PQ_Acquire
    \/ PQ_While
    \/ PQ_Invoke
    \/ PQ_Reacquire
    \/ PQ_Return
    \/ Wait

\* ------------------------------------------------------ report_feedback
\* A thread calls report_feedback(feedback) with an item of class c.
RF_Call(t, c) ==
    /\ CanCall(t)
    /\ nReports < MaxItems
    /\ nReports' = nReports + 1
    /\ arg' = [arg EXCEPT ![t] = [NoArg EXCEPT !.op = "report_feedback", !.cls = c,
                                                !.late = stopsReturned > 0]]
    /\ pc' = [pc EXCEPT ![t] = "rf_lock"]
    /\ UNCHANGED <<shared, cur, inCallback, nRegs, nStops, nextId, history>>
    /\ UNCHANGED facade

\* Mutant of RF_Locked: report_feedback without self._check_queue.set().
RF_LockedNoSet(t) ==
    /\ pc[t] = "rf_lock"
    /\ lock = NoThread
    /\ nextId' = nextId + 1
    /\ queue' = Append(queue, [id |-> nextId + 1, cls |-> arg[t].cls,
                                raw |-> arg[t].raw])
    /\ results' = results \cup {Outcome(t, "returned")}
    /\ arg' = [arg EXCEPT ![t] = NoArg]
    /\ pc' = [pc EXCEPT ![t] = Ret(t)]
    /\ UNCHANGED <<lock, check_queue, continue_running, feedback_functions, cur,
                   inCallback, counters, delivered, popped, discarded, stopsReturned>>
    /\ UNCHANGED facade

\* Mutant of RF_Locked: report_feedback that calls the item's observer itself,
\* on the caller's thread, when there is one, and queues the item otherwise.
RF_LockedInline(t) ==
    /\ pc[t] = "rf_lock"
    /\ lock = NoThread
    /\ nextId' = nextId + 1
    /\ LET item == [id |-> nextId + 1, cls |-> arg[t].cls, raw |-> arg[t].raw]
       IN IF Resolve(item).fn # NoFunction
          THEN /\ delivered' = Append(delivered,
                      [id |-> item.id, thread |-> t, concurrent |-> inCallback # {},
                       stale |-> FALSE, afterStop |-> stopsReturned > 0])
               /\ popped' = popped \cup {item.id}
               /\ UNCHANGED <<queue, check_queue>>
          ELSE /\ queue' = Append(queue, item)
               /\ check_queue' = TRUE
               /\ UNCHANGED <<delivered, popped>>
    /\ results' = results \cup {Outcome(t, "returned")}
    /\ arg' = [arg EXCEPT ![t] = NoArg]
    /\ pc' = [pc EXCEPT ![t] = Ret(t)]
    /\ UNCHANGED <<lock, continue_running, feedback_functions, cur, inCallback,
                   counters, discarded, stopsReturned>>
    /\ UNCHANGED facade

\* The with self._lock block, entered when the lock is free and left with the
\* lock free again: self._queue.append(feedback), self._check_queue.set();
\* then the return to the caller.
RF_Locked(t) ==
    /\ pc[t] = "rf_lock"
    /\ lock = NoThread
    /\ nextId' = nextId + 1
    /\ queue' = Append(queue, [id |-> nextId + 1, cls |-> arg[t].cls,
                                raw |-> arg[t].raw])
    /\ check_queue' = TRUE
    /\ results' = results \cup {Outcome(t, "returned")}
    /\ arg' = [arg EXCEPT ![t] = NoArg]
    /\ pc' = [pc EXCEPT ![t] = Ret(t)]
    /\ UNCHANGED <<lock, continue_running, feedback_functions, cur, inCallback, counters,
                   delivered, popped, discarded, stopsReturned>>
    /\ UNCHANGED facade

\* ------------------------------------------------ set_feedback_observer
\* The key under which set_feedback_observer stores: FeedbackCommand for the
\* feedback_class None, the class itself otherwise.
ObserverKey(feedback_class) ==
    IF feedback_class = NoClass THEN FeedbackCommand ELSE feedback_class

\* A thread calls set_feedback_observer(feedback_class, feedback_function).
SO_Call(t, c, fn) ==
    /\ CanCall(t)
    /\ nRegs < MaxRegs
    /\ nRegs' = nRegs + 1
    /\ arg' = [arg EXCEPT ![t] = [NoArg EXCEPT !.op = "set_feedback_observer",
                                                !.cls = ObserverKey(c), !.fn = fn,
                                                !.late = stopsReturned > 0]]
    /\ pc' = [pc EXCEPT ![t] = "so_lock"]
    /\ UNCHANGED <<shared, cur, inCallback, nReports, nStops, nextId, history>>
    /\ UNCHANGED facade

\* The with self._lock block, entered when the lock is free and left with the
\* lock free again: self._feedback_functions[feedback_class] =
\* feedback_function; then the return to the caller.
SO_Locked(t) ==
    /\ pc[t] = "so_lock"
    /\ lock = NoThread
    /\ feedback_functions' = [feedback_functions EXCEPT ![arg[t].cls] = arg[t].fn]
    /\ results' = results \cup {Outcome(t, "returned")}
    /\ arg' = [arg EXCEPT ![t] = NoArg]
    /\ pc' = [pc EXCEPT ![t] = Ret(t)]
    /\ UNCHANGED <<lock, check_queue, queue, continue_running, cur, inCallback, counters,
                   nextId, delivered, popped, discarded, stopsReturned>>
    /\ UNCHANGED facade

\* ------------------------------------------------------------------ stop
\* A thread calls stop(): assert self._continue_running, read without the
\* lock. A false flag raises AssertionError out of the call.
ST_Call(t) ==
    /\ CanCall(t)
    /\ nStops < MaxStops
    /\ nStops' = nStops + 1
    /\ LET a == [NoArg EXCEPT !.op = "stop", !.late = stopsReturned > 0]
       IN IF continue_running
          THEN /\ arg' = [arg EXCEPT ![t] = a]
               /\ pc' = [pc EXCEPT ![t] = "st_lock"]
               /\ UNCHANGED results
          ELSE /\ results' = results \cup
                     {[op |-> "stop", late |-> a.late, result |-> "AssertionError"]}
               /\ UNCHANGED <<pc, arg>>
    /\ UNCHANGED <<shared, cur, inCallback, nReports, nRegs, nextId, delivered, popped,
                   discarded, stopsReturned>>
    /\ UNCHANGED facade

\* Mutant of ST_Locked: stop without self._check_queue.set().
ST_LockedNoSet(t) ==
    /\ pc[t] = "st_lock"
    /\ lock = NoThread
    /\ continue_running' = FALSE
    /\ discarded' = discarded \cup Ids(queue)
    /\ queue' = <<>>
    /\ pc' = [pc EXCEPT ![t] = "st_join"]
    /\ UNCHANGED <<lock, check_queue, feedback_functions, arg, cur, inCallback,
                   counters, nextId, delivered, popped, stopsReturned, results>>
    /\ UNCHANGED facade

\* Mutant of ST_Locked: stop that only sets the event, leaving the flag and
\* the buffer as they are.
ST_LockedKeeps(t) ==
    /\ pc[t] = "st_lock"
    /\ lock = NoThread
    /\ discarded' = discarded \cup Ids(queue)
    /\ check_queue' = TRUE
    /\ pc' = [pc EXCEPT ![t] = "st_join"]
    /\ UNCHANGED <<lock, queue, continue_running, feedback_functions, arg, cur,
                   inCallback, counters, nextId, delivered, popped, stopsReturned,
                   results>>
    /\ UNCHANGED facade

\* The with self._lock block, entered when the lock is free and left with the
\* lock free again: self._continue_running = False, self._queue = [],
\* self._check_queue.set().
ST_Locked(t) ==
    /\ pc[t] = "st_lock"
    /\ lock = NoThread
    /\ continue_running' = FALSE
    /\ discarded' = discarded \cup Ids(queue)
    /\ queue' = <<>>
    /\ check_queue' = TRUE
    /\ pc' = [pc EXCEPT ![t] = "st_join"]
    /\ UNCHANGED <<lock, feedback_functions, arg, cur, inCallback, counters, nextId,
                   delivered, popped, stopsReturned, results>>
    /\ UNCHANGED facade

\* Whether the thread started by __init__ has ended (returned or died).
ThreadEnded == pc[Dispatch] \in {"done", "dead"}

\* Mutant of ST_Join: stop that returns without self._thread.join().
ST_JoinNoWait(t) ==
    /\ pc[t] = "st_join"
    /\ results' = results \cup {Outcome(t, "returned")}
    /\ stopsReturned' = stopsReturned + 1
    /\ arg' = [arg EXCEPT ![t] = NoArg]
    /\ pc' = [pc EXCEPT ![t] = Ret(t)]
    /\ UNCHANGED <<shared, cur, inCallback, counters, nextId, delivered, popped,
                   discarded>>
    /\ UNCHANGED facade

\* Mutant of ST_Join: a join that waits for the thread to end whoever the
\* caller is, the dispatch thread itself included.
ST_JoinWaitsForSelf(t) ==
    /\ pc[t] = "st_join"
    /\ ThreadEnded
    /\ results' = results \cup {Outcome(t, "returned")}
    /\ stopsReturned' = stopsReturned + 1
    /\ arg' = [arg EXCEPT ![t] = NoArg]
    /\ pc' = [pc EXCEPT ![t] = Ret(t)]
    /\ UNCHANGED <<shared, cur, inCallback, counters, nextId, delivered, popped,
                   discarded>>
    /\ UNCHANGED facade

\* self._thread.join(): raises RuntimeError at once when the caller is the
\* dispatch thread itself, else returns once that thread has ended.
ST_Join(t) ==
    /\ pc[t] = "st_join"
    /\ IF t = Dispatch
       THEN /\ results' = results \cup {Outcome(t, "RuntimeError")}
            /\ UNCHANGED stopsReturned
       ELSE /\ ThreadEnded
            /\ results' = results \cup {Outcome(t, "returned")}
            /\ stopsReturned' = stopsReturned + 1
    /\ arg' = [arg EXCEPT ![t] = NoArg]
    /\ pc' = [pc EXCEPT ![t] = Ret(t)]
    /\ UNCHANGED <<shared, cur, inCallback, counters, nextId, delivered, popped,
                   discarded>>
    /\ UNCHANGED facade

\* ------------------------------------------------------- the whole system
ReportFeedback(t) ==
    \/ \E c \in Classes : RF_Call(t, c)
    \/ RF_Locked(t)

SetFeedbackObserver(t) ==
    \/ \E c \in Classes \cup {NoClass}, fn \in Callbacks : SO_Call(t, c, fn)
    \/ SO_Locked(t)

Stop(t) ==
    \/ ST_Call(t)
    \/ ST_Locked(t)
    \/ ST_Join(t)

Next ==
    \/ DispatchStep
    \/ CallbackReturn
    \/ CallbackRaise
    \/ \E t \in Reporters : ReportFeedback(t)
    \/ \E t \in Registrars : SetFeedbackObserver(t)
    \/ \E t \in Stoppers : Stop(t)

Spec == Init /\ [][Next]_vars

\* The steps by which a thread goes on with a call it has begun.
Continue(t) == RF_Locked(t) \/ SO_Locked(t) \/ ST_Locked(t) \/ ST_Join(t)

\* Scheduling: every thread that can take a step eventually takes one (the
\* dispatch thread in its loop, a thread inside a public operation), and a
\* callback that is not calling back into the queue eventually returns (or
\* raises).
FairSpec ==
    /\ Spec
    /\ WF_vars(DispatchStep)
    /\ WF_vars(CallbackReturn)
    /\ \A t \in Threads : WF_vars(Continue(t))

\* ------------------------------------------------------- the line decoder
\* Text is a sequence of one-character strings. An optional value is None or
\* Some(v).
MaxFields == 5

None == <<>>
Some(v) == <<v>>

STATE_ON == <<"O", "N">>
STATE_OFF == <<"O", "F", "F">>
STATE_TOGGLE == <<"T", "O", "G">>
STATE_CHANGE == <<"C", "H", "G">>

\* The value of a decimal digit.
DigitValue ==
    [c \in {"0", "1", "2", "3", "4", "5", "6", "7", "8", "9"} |->
        CASE c = "0" -> 0 [] c = "1" -> 1 [] c = "2" -> 2 [] c = "3" -> 3
          [] c = "4" -> 4 [] c = "5" -> 5 [] c = "6" -> 6 [] c = "7" -> 7
          [] c = "8" -> 8 [] c = "9" -> 9]
Digits == DOMAIN DigitValue

\* int(text) for a text without spaces: defined on one or more decimal
\* digits (signs and underscores are not among the texts drawn here).
IsInt(text) == Len(text) > 0 /\ \A i \in 1..Len(text) : text[i] \in Digits

RECURSIVE IntValue(_)
IntValue(text) ==
    IF text = <<>> THEN 0
    ELSE 10 * IntValue(SubSeq(text, 1, Len(text) - 1)) + DigitValue[text[Len(text)]]

\* An exception leaving a call.
Raised(exception) == [raised |-> exception]
IsRaised(result) == "raised" \in DOMAIN result

\* raw_command.replace(" ", "")
RemoveSpaces(text) == SelectSeq(text, LAMBDA c : c # " ")

\* text.split(','): always at least one field; the empty text gives [''].
RECURSIVE Split(_)
Split(text) ==
    IF \A i \in 1..Len(text) : text[i] # ","
    THEN <<text>>
    ELSE LET i == CHOOSE k \in 1..Len(text) :
                      text[k] = "," /\ \A j \in 1..(k - 1) : text[j] # ","
         IN <<SubSeq(text, 1, i - 1)>> \o Split(SubSeq(text, i + 1, Len(text)))

\* FeedbackCommand.__init__
FeedbackCommandInit(cls, raw_command, parsed_args) ==
    [class |-> cls, raw_command |-> raw_command, parsed_args |-> parsed_args,
     command |-> IF Len(parsed_args) > 0 THEN parsed_args[1] ELSE <<>>]

\* _SystemFeedback.__init__ after FeedbackCommand.__init__; system_arg_index
\* counts from 0 as in the source.
SystemFeedbackInit(self, system_arg_index) ==
    IF Len(self.parsed_args) > system_arg_index
    THEN LET field == self.parsed_args[system_arg_index + 1]
         IN IF Len(field) < 1 THEN Raised("IndexError")
            ELSE IF field[1] # "S" THEN Raised("AssertionError")
            ELSE IF Len(field) < 2 THEN Raised("IndexError")
            ELSE IF field[2] \notin Digits THEN Raised("ValueError")
            ELSE self @@ [system |-> Some(DigitValue[field[2]])]
    ELSE self @@ [system |-> None]

\* self.<name> = int(parsed_args[index]), index counting from 0; not reached
\* when an earlier statement of the constructor has raised.
SetInt(self, name, index) ==
    IF IsRaised(self) THEN self
    ELSE IF Len(self.parsed_args) <= index THEN Raised("IndexError")
    ELSE IF ~IsInt(self.parsed_args[index + 1]) THEN Raised("ValueError")
    ELSE self @@ (name :> IntValue(self.parsed_args[index + 1]))

\* self.state = parsed_args[index]; assert self.state == ... or ...; not
\* reached when an earlier statement of the constructor has raised.
SetState(self, index, allowed) ==
    IF IsRaised(self) THEN self
    ELSE IF Len(self.parsed_args) <= index THEN Raised("IndexError")
    ELSE IF self.parsed_args[index + 1] \notin allowed THEN Raised("AssertionError")
    ELSE self @@ [state |-> self.parsed_args[index + 1]]

\* LocalZoneChange.__init__
LocalZoneChangeInit(self) ==
    SetState(SetInt(SystemFeedbackInit(self, 3), "zone_number", 1),
             2, {STATE_ON, STATE_OFF, STATE_CHANGE})

\* _MasterControlFeedback.__init__
MasterControlFeedbackInit(self, system_arg_index) ==
    SetInt(SystemFeedbackInit(self, system_arg_index), "master_control_number", 1)

\* _MasterControlButtonFeedback.__init__
MasterControlButtonFeedbackInit(self, system_arg_index) ==
    SetInt(MasterControlFeedbackInit(self, system_arg_index), "button_number", 2)

\* MasterControlButtonPress.__init__
MasterControlButtonPressInit(self) ==
    SetState(MasterControlButtonFeedbackInit(self, 4), 3, {STATE_ON, STATE_OFF})

\* FEEDBACK_CLASSES, each class with its COMMAND, its REQUIRED_PARAMS (its own
\* or the inherited one) and the constructor it runs.
FEEDBACK_CLASSES ==
    << [name |-> "Prompt", COMMAND |-> <<"!">>, REQUIRED_PARAMS |-> 0,
        init |-> "FeedbackCommand"],
       [name |-> "LocalZoneChange", COMMAND |-> <<"L", "Z", "C">>, REQUIRED_PARAMS |-> 2,
        init |-> "LocalZoneChange"],
       [name |-> "MasterControlButtonPress", COMMAND |-> <<"M", "B", "P">>,
        REQUIRED_PARAMS |-> 3, init |-> "MasterControlButtonPress"],
       [name |-> "RaiseButtonPress", COMMAND |-> <<"R", "B", "P">>, REQUIRED_PARAMS |-> 2,
        init |-> "_MasterControlButtonFeedback"],
       [name |-> "RaiseButtonRelease", COMMAND |-> <<"R", "B", "R">>, REQUIRED_PARAMS |-> 2,
        init |-> "_MasterControlButtonFeedback"],
       [name |-> "LowerButtonPress", COMMAND |-> <<"L", "B", "P">>, REQUIRED_PARAMS |-> 2,
        init |-> "_MasterControlButtonFeedback"],
       [name |-> "LowerButtonRelease", COMMAND |-> <<"L", "B", "R">>, REQUIRED_PARAMS |-> 2,
        init |-> "_MasterControlButtonFeedback"],
       [name |-> "CordlessWakingUp", COMMAND |-> <<"C", "W", "U">>, REQUIRED_PARAMS |-> 1,
        init |-> "_MasterControlFeedback"],
       [name |-> "CordlessGoingToSleep", COMMAND |-> <<"C", "G", "S">>, REQUIRED_PARAMS |-> 1,
        init |-> "_MasterControlFeedback"] >>

\* feedback_class(raw_command, parsed_args)
Construct(feedback_class, raw_command, parsed_args) ==
    LET self == FeedbackCommandInit(feedback_class.name, raw_command, parsed_args)
    IN CASE feedback_class.init = "FeedbackCommand" -> self
         [] feedback_class.init = "LocalZoneChange" -> LocalZoneChangeInit(self)
         [] feedback_class.init = "MasterControlButtonPress" ->
                MasterControlButtonPressInit(self)
         [] feedback_class.init = "_MasterControlButtonFeedback" ->
                MasterControlButtonFeedbackInit(self, 3)
         [] feedback_class.init = "_MasterControlFeedback" ->
                MasterControlFeedbackInit(self, 2)

\* The loop of create_feedback_command over FEEDBACK_CLASSES: the first class
\* whose COMMAND is the command text and whose REQUIRED_PARAMS is at most the
\* number of fields is constructed; UnknownFeedback when there is none.
FindClass(raw_command, parsed_args) ==
    LET matches == {k \in 1..Len(FEEDBACK_CLASSES) :
                       /\ FEEDBACK_CLASSES[k].COMMAND = parsed_args[1]
                       /\ FEEDBACK_CLASSES[k].REQUIRED_PARAMS <= Len(parsed_args)}
    IN IF Len(parsed_args) > 0 /\ matches # {}
       THEN Construct(FEEDBACK_CLASSES[CHOOSE k \in matches :
                                           \A m \in matches : k <= m],
                      raw_command, parsed_args)
       ELSE FeedbackCommandInit("UnknownFeedback", raw_command, parsed_args)

\* Mutant of create_feedback_command: the line split without its spaces
\* removed.
create_feedback_commandKeepsSpaces(raw_command) ==
    FindClass(raw_command, Split(raw_command))

create_feedback_command(raw_command) ==
    FindClass(raw_command, Split(RemoveSpaces(raw_command)))

\* _SystemFeedback.system_number: hasattr(self, 'system') is whether the
\* attribute exists, whatever its value.
system_number(self) ==
    IF ~("system" \in DOMAIN self) THEN Some(1) ELSE self.system

\* ------------------------------------------------------- outbound commands
\* "{0}".format(n) for a natural number.
RECURSIVE FormatInt(_)
FormatInt(n) ==
    LET digit == CHOOSE c \in Digits : DigitValue[c] = n % 10
    IN IF n < 10 THEN <<digit>> ELSE FormatInt(n \div 10) \o <<digit>>

\* Python's truth value of the system argument: false for None and for 0.
Truthy(system) == system # None /\ system # Some(0)

\* RadioRA._send_command(command, system): what is written to the transport,
\* or the exception raised with nothing written.
send_command(command, system) ==
    IF Truthy(system)
    THEN IF system \notin {Some(1), Some(2)}
         THEN [command |-> command, system |-> system, written |-> None,
               raised |-> "AssertionError"]
         ELSE [command |-> command, system |-> system,
               written |-> Some(command \o <<",", "S">> \o FormatInt(system[1])),
               raised |-> "none"]
    ELSE [command |-> command, system |-> system, written |-> Some(command),
          raised |-> "none"]

\* ------------------------------------------------- scenes (scene.py)
\* What a lookup gives: the value returned, or the exception raised.
Returned(value) == [raised |-> "none", value |-> value]
LookupRaised(exception) == [raised |-> exception, value |-> None]

\* Zone.system_number and MasterControl.system_number: 1 when the system
\* attribute is None.
scene_system_number(self) == IF self.system = None THEN 1 ELSE self.system[1]

\* Zone(names, zone_number, system) and MasterControl(name,
\* master_control_number, system).
Zone(name, zone_number, system) ==
    [name |-> name, zone_number |-> zone_number, system |-> system]
MasterControl(name, master_control_number, system) ==
    [name |-> name, master_control_number |-> master_control_number,
     system |-> system]

\* SceneGroup.__init__ and MasterControlGroup.__init__: self.zones (self.controls)
\* = {1: {}, 2: {}}, a dict as a function on its keys.
EmptyDict == [k \in {} |-> None]
EmptyGroup == (1 :> EmptyDict) @@ (2 :> EmptyDict)

\* SceneGroup.add_scene for a Zone:
\* self.zones[scene.system_number][scene.zone_number] = scene.
add_scene(zones, scene) ==
    [zones EXCEPT ![scene_system_number(scene)] = (scene.zone_number :> scene) @@ @]

\* MasterControlGroup.add_control.
add_control(controls, control) ==
    [controls EXCEPT ![scene_system_number(control)] =
                         (control.master_control_number :> control) @@ @]

\* SceneGroup.zone_for_feedback: self.zones[feedback.system_number] raises
\* KeyError when system_number is not a key of self.zones.
zone_for_feedback(zones, feedback) ==
    LET number == system_number(feedback)
    IN IF number = None \/ number[1] \notin DOMAIN zones
       THEN LookupRaised("KeyError")
       ELSE IF feedback.zone_number \in DOMAIN zones[number[1]]
            THEN Returned(Some(zones[number[1]][feedback.zone_number]))
            ELSE Returned(None)

\* isinstance(feedback, _MasterControlFeedback)
IsMasterControlFeedback(feedback) ==
    feedback.class \in {"MasterControlButtonPress", "RaiseButtonPress",
                        "RaiseButtonRelease", "LowerButtonPress",
                        "LowerButtonRelease", "CordlessWakingUp",
                        "CordlessGoingToSleep"}

\* MasterControlGroup.control_for_feedback
control_for_feedback(controls, feedback) ==
    IF IsMasterControlFeedback(feedback)
    THEN LET number == system_number(feedback)
         IN IF number = None \/ number[1] \notin DOMAIN controls
            THEN LookupRaised("KeyError")
            ELSE IF feedback.master_control_number \in DOMAIN controls[number[1]]
                 THEN Returned(Some(controls[number[1]][feedback.master_control_number]))
                 ELSE Returned(None)
    ELSE Returned(None)

\* The groups in which decoded feedback is looked up: an empty one, and one
\* with zone (control) 12 in system 2, zone (control) 12 in the default
\* system and zone (control) 7 in system 1.
SceneGroups ==
    [empty |-> EmptyGroup,
     house |-> add_scene(add_scene(add_scene(EmptyGroup,
                  Zone("porch", 12, Some(2))), Zone("hall", 12, None)),
                  Zone("attic", 7, Some(1)))]
ControlGroups ==
    [empty |-> EmptyGroup,
     house |-> add_control(add_control(add_control(EmptyGroup,
                  MasterControl("door", 12, Some(2))), MasterControl("bed", 12, None)),
                  MasterControl("desk", 7, Some(1)))]

\* A feedback observer looks the feedback up in each group: a LocalZoneChange
\* with zone_for_feedback, any feedback with control_for_feedback.
Lookups(feedback) ==
    IF IsRaised(feedback)
    THEN NoLookup
    ELSE [zone |-> IF feedback.class = "LocalZoneChange"
                   THEN [g \in DOMAIN SceneGroups |->
                           zone_for_feedback(SceneGroups[g], feedback)]
                   ELSE NoLookup.zone,
          control |-> [g \in DOMAIN ControlGroups |->
                         control_for_feedback(ControlGroups[g], feedback)]]

\* ---------------------------------------- decoding and encoding on their own
\* The command texts and the fields from which received lines are drawn, and
\* the commands and system arguments of the calls that send.
CommandTokens ==
    {<<"!">>, <<"L", "Z", "C">>, <<"M", "B", "P">>, <<"R", "B", "P">>,
     <<"R", "B", "R">>, <<"L", "B", "P">>, <<"L", "B", "R">>,
     <<"C", "W", "U">>, <<"C", "G", "S">>, <<"X", "Y", "Z">>, <<>>}
FieldTokens ==
    {<<"1", " ", "2">>, <<"x">>, <<>>, <<"O", "N">>, <<"C", "H", "G">>,
     <<"S", " ", "2">>, <<"S", "3">>, <<"S">>}
CommandTexts == {<<"R", "A", "I", "S", "E", ",", "1">>, <<"S", "G", "S", ",", "1", ",", "2">>}
SystemArgs == {None, Some(0), Some(1), Some(2), Some(3)}

NumFields(text) == Len(Split(text))

\* A line of one field is received and decoded.
CodecInit ==
    /\ QueueInit
    /\ line \in CommandTokens
    /\ decoded = create_feedback_command(line)
    /\ found = Lookups(decoded)
    /\ sent = NoSend
    /\ radioStop = "none"

\* A line with one more field is received and decoded.
DecodeLonger(field) ==
    /\ sent = NoSend
    /\ NumFields(line) < MaxFields
    /\ line' = line \o <<",">> \o field
    /\ decoded' = create_feedback_command(line')
    /\ found' = Lookups(decoded')
    /\ UNCHANGED <<shared, pc, arg, cur, inCallback, counters, nextId, history,
                   sent, radioStop>>

\* A command method calls _send_command(command, system).
SendCommand(command, system) ==
    /\ sent = NoSend
    /\ NumFields(line) = 1
    /\ sent' = send_command(command, system)
    /\ UNCHANGED <<shared, pc, arg, cur, inCallback, counters, nextId, history,
                   line, decoded, radioStop>>
    /\ UNCHANGED found

CodecNext ==
    \/ \E field \in FieldTokens : DecodeLonger(field)
    \/ \E command \in CommandTexts, system \in SystemArgs :
          SendCommand(command, system)

CodecSpec == CodecInit /\ [][CodecNext]_vars

\* ------------------------------------------------------------ the facade
\* RadioRA: the reader thread hands each received line to handle_line, the
\* client registers observers and calls RadioRA.stop once. The reader thread
\* is the thread "transport"; it is "ended" once it has terminated.
FacadeLines == {<<"L", "Z", "C", ",", "7", ",", "O", "N">>, <<"M", "B", "P", ",", "1", ",", "2", ",", "O", "N", ",", "S", "1">>, <<"L", "Z", "C", ",", "x", ",", "O", "N">>}

\* The outcome recorded when handle_line raises to the reader thread.
LineFault(exception) ==
    [op |-> "handle_line", late |-> stopsReturned > 0, result |-> exception]

\* Mutant of HL_Call: handle_line with the decoding in a try/except that
\* returns without a word when the decoder raises.
HL_CallDropsFailures(raw) ==
    /\ pc["transport"] = "idle"
    /\ nReports < MaxItems
    /\ nReports' = nReports + 1
    /\ line' = raw
    /\ decoded' = create_feedback_command(raw)
    /\ IF IsRaised(decoded')
       THEN UNCHANGED <<results, arg, pc>>
       ELSE /\ arg' = [arg EXCEPT !["transport"] =
                          [NoArg EXCEPT !.op = "report_feedback",
                                        !.cls = decoded'.class,
                                        !.raw = decoded'.raw_command,
                                        !.late = stopsReturned > 0]]
            /\ pc' = [pc EXCEPT !["transport"] = "rf_lock"]
            /\ UNCHANGED results
    /\ UNCHANGED <<shared, cur, inCallback, nRegs, nStops, nextId, delivered, popped,
                   discarded, stopsReturned, sent, radioStop>>
    /\ UNCHANGED found

\* The reader thread calls handle_line(raw): the argument of report_feedback,
\* create_feedback_command(raw), is evaluated first. When it raises, the
\* exception leaves handle_line for the reader thread's loop, which is the
\* serial library's: the thread goes on reading or ends. Otherwise
\* report_feedback is called with the decoded feedback.
HL_Call(raw) ==
    /\ pc["transport"] = "idle"
    /\ nReports < MaxItems
    /\ nReports' = nReports + 1
    /\ line' = raw
    /\ decoded' = create_feedback_command(raw)
    /\ IF IsRaised(decoded')
       THEN /\ results' = results \cup {LineFault(decoded'.raised)}
            /\ \E next \in {"idle", "ended"} :
                  pc' = [pc EXCEPT !["transport"] = next]
            /\ UNCHANGED arg
       ELSE /\ arg' = [arg EXCEPT !["transport"] =
                          [NoArg EXCEPT !.op = "report_feedback",
                                        !.cls = decoded'.class,
                                        !.raw = decoded'.raw_command,
                                        !.late = stopsReturned > 0]]
            /\ pc' = [pc EXCEPT !["transport"] = "rf_lock"]
            /\ UNCHANGED results
    /\ UNCHANGED <<shared, cur, inCallback, nRegs, nStops, nextId, delivered, popped,
                   discarded, stopsReturned, sent, radioStop>>
    /\ UNCHANGED found

\* The reader thread, told to stop and between two lines, ends.
ReaderExit ==
    /\ pc["transport"] = "idle"
    /\ radioStop # "none"
    /\ pc' = [pc EXCEPT !["transport"] = "ended"]
    /\ UNCHANGED <<shared, arg, cur, inCallback, counters, nextId, history, line,
                   decoded, sent, radioStop>>
    /\ UNCHANGED found

\* RadioRA.stop, first statement: self._reader_thread.stop().
RS_Call ==
    /\ pc["client"] = "idle"
    /\ radioStop = "none"
    /\ radioStop' = "join"
    /\ pc' = [pc EXCEPT !["client"] = "rs_join"]
    /\ UNCHANGED <<shared, arg, cur, inCallback, counters, nextId, history, line,
                   decoded, sent>>
    /\ UNCHANGED found

\* Mutant of RS_Join: RadioRA.stop without self._reader_thread.join().
RS_JoinNoWait ==
    /\ pc["client"] = "rs_join"
    /\ radioStop' = "queue"
    /\ pc' = [pc EXCEPT !["client"] = "idle"]
    /\ UNCHANGED <<shared, arg, cur, inCallback, counters, nextId, history, line,
                   decoded, sent>>
    /\ UNCHANGED found

\* self._reader_thread.join() returns once the reader thread has ended; what
\* follows is self._feedback_queue.stop().
RS_Join ==
    /\ pc["client"] = "rs_join"
    /\ pc["transport"] = "ended"
    /\ radioStop' = "queue"
    /\ pc' = [pc EXCEPT !["client"] = "idle"]
    /\ UNCHANGED <<shared, arg, cur, inCallback, counters, nextId, history, line,
                   decoded, sent>>
    /\ UNCHANGED found

\* RadioRA.stop has returned: its call of FeedbackQueue.stop was made and is
\* over.
RadioStopped == radioStop = "queue" /\ nStops > 0 /\ pc["client"] = "idle"

\* self._feedback_queue.stop(), the last statement of RadioRA.stop.
RS_QueueStop ==
    /\ radioStop = "queue"
    /\ ~RadioStopped
    /\ Stop("client")

HandleLine ==
    \/ \E raw \in FacadeLines : HL_Call(raw)
    \/ RF_Locked("transport")

\* RadioRA.set_feedback_observer, by the client outside RadioRA.stop or by a
\* callback.
FacadeObserver(t) ==
    /\ t = "client" => (radioStop = "none" \/ RadioStopped)
    /\ SetFeedbackObserver(t)

RadioStop ==
    \/ RS_Call
    \/ RS_Join
    \/ RS_QueueStop

FacadeNext ==
    \/ DispatchStep
    \/ CallbackReturn
    \/ CallbackRaise
    \/ HandleLine
    \/ ReaderExit
    \/ \E t \in Registrars : FacadeObserver(t)
    \/ RadioStop

FacadeSpec == Init /\ [][FacadeNext]_vars

\* ------------------------------------------------------------ the claims
DeliveredIds == {delivered[k].id : k \in 1..Len(delivered)}

\* C1: FIFO delivery. Items are numbered in the order report_feedback appended
\* them; the callback invocations begin in that order, and each begins only
\* when no earlier invocation is still executing.
C1_FifoDelivery ==
    \A j \in 1..Len(delivered) :
        /\ ~delivered[j].concurrent
        /\ \A i \in 1..(j - 1) : delivered[i].id < delivered[j].id

\* Two items have been delivered, the callback of the second executing.
C1_Witness ==
    /\ Len(delivered) >= 2
    /\ pc[Dispatch] = "cb"

\* C2: at-most-once dispatch. No item gets two callback invocations; an item
\* is out of the buffer when its callback is invoked (and from the moment it
\* is popped) and never comes back.
C2_AtMostOnce ==
    /\ \A i, j \in 1..Len(delivered) : i # j => delivered[i].id # delivered[j].id
    /\ popped \cap Ids(queue) = {}
    /\ DeliveredIds \subseteq popped
    /\ pc[Dispatch] \in {"pq_call", "cb"} => cur.item.id \in popped

\* An item is being delivered while a later one waits in the buffer.
C2_Witness ==
    /\ Dispatch \in inCallback
    /\ cur.item.id \in DeliveredIds
    /\ Len(queue) > 0

\* C3: serialized callbacks. At most one thread is executing a callback, it is
\* the dispatch thread, and every invocation was made by the dispatch thread
\* while no other callback was executing.
C3_SerializedCallbacks ==
    /\ inCallback \subseteq {Dispatch}
    /\ \A k \in 1..Len(delivered) :
        delivered[k].thread = Dispatch /\ ~delivered[k].concurrent

\* A callback is executing while the reader thread is inside report_feedback
\* and the client is inside set_feedback_observer.
C3_Witness ==
    /\ Dispatch \in inCallback
    /\ pc["transport"] = "rf_lock"
    /\ pc["client"] = "so_lock"

\* C4: no lost wake-up. Unless stop() is called or a callback raises, every
\* item in the buffer is eventually popped, and a popped item with an observer
\* eventually has its callback invoked.
C4_NoLostWakeup ==
    /\ \A i \in 1..MaxItems :
        (i \in Ids(queue)) ~> (i \in popped \/ nStops > 0 \/ pc[Dispatch] = "dead")
    /\ \A i \in 1..MaxItems :
        (pc[Dispatch] = "pq_call" /\ cur.item.id = i) ~> (i \in DeliveredIds)

\* With no stop() called, the dispatch thread has popped every item appended
\* and is suspended on the event again.
C4_Witness ==
    /\ nStops = 0
    /\ nextId = MaxItems
    /\ popped = 1..nextId
    /\ pc[Dispatch] = "wait"

\* C5: stop() discards the buffer. No item that was in the buffer when stop()
\* cleared the running flag is ever passed to a callback.
C5_StopDiscards == DeliveredIds \cap discarded = {}

\* stop() found items in the buffer, an earlier item had its callback, and the
\* dispatch thread has ended.
C5_Witness ==
    /\ discarded # {}
    /\ DeliveredIds # {}
    /\ pc[Dispatch] = "done"

\* C6: operations after stop are rejected. A report_feedback or
\* set_feedback_observer call begun after a stop() has returned does not
\* return normally: it fails with a queue-stopped error.
C6_RejectedAfterStop ==
    \A r \in results :
        (r.late /\ r.op \in {"report_feedback", "set_feedback_observer"})
            => r.result = "QueueStopped"

\* C7: last registration wins. No callback is invoked for an item once a
\* set_feedback_observer call that replaced it, under the key it was found
\* under, has returned.
C7_LastRegistrationWins == \A k \in 1..Len(delivered) : ~delivered[k].stale

\* C8: stop() is synchronous with the dispatch thread. Once a stop() called
\* from another thread has returned, the dispatch thread has ended, no
\* callback is executing and no callback invocation has begun since.
C8_StopSynchronous ==
    stopsReturned > 0 =>
        /\ ThreadEnded
        /\ inCallback = {}
        /\ \A k \in 1..Len(delivered) : ~delivered[k].afterStop

\* stop() has returned after a callback had been invoked, the dispatch thread
\* having left its loop.
C8_Witness ==
    /\ stopsReturned > 0
    /\ Len(delivered) > 0
    /\ pc[Dispatch] = "done"

\* C9: stop() terminates. A stop() call that passed its assert, made by a
\* thread other than the dispatch thread, eventually returns, the dispatch
\* thread having ended.
C9_StopTerminates ==
    \A t \in Callers :
        (pc[t] = "st_lock") ~> (pc[t] = "idle" /\ stopsReturned > 0 /\ ThreadEnded)

\* stop() has cleared the flag and waits in join() while the dispatch thread
\* is still suspended on the event.
C9_Witness ==
    \E t \in Callers :
        /\ pc[t] = "st_join"
        /\ pc[Dispatch] = "wait"
        /\ stopsReturned = 0

\* C10: double stop is signalled. A stop() call begun after a stop() has
\* returned raises, and at most one stop() call ever returns normally.
C10_DoubleStopSignalled ==
    /\ \A r \in results : (r.op = "stop" /\ r.late) => r.result = "AssertionError"
    /\ stopsReturned <= 1

\* C11: observer resolution. Whenever the dispatch thread pops an item, the
\* callback it goes on to invoke is the one stored under the item's exact
\* class if there is one, else the one stored under FeedbackCommand (the
\* wildcard) if there is one; with neither the item is consumed and nothing is
\* invoked. The invocation that follows is of that callback for that item.
C11_ObserverResolution ==
    [][/\ (pc[Dispatch] = "pq_while" /\ popped' # popped) =>
            LET it == CHOOSE x \in {queue[i] : i \in 1..Len(queue)} :
                          x.id \in popped' \ popped
                exact == feedback_functions[it.cls]
                wild == feedback_functions[FeedbackCommand]
            IN /\ exact # Absent =>
                    /\ pc'[Dispatch] = "pq_call"
                    /\ cur' = [item |-> it, key |-> it.cls, fn |-> exact]
               /\ (exact = Absent /\ wild # Absent) =>
                    /\ pc'[Dispatch] = "pq_call"
                    /\ cur' = [item |-> it, key |-> FeedbackCommand, fn |-> wild]
               /\ (exact = Absent /\ wild = Absent) =>
                    /\ pc'[Dispatch] = "pq_while"
                    /\ cur' = NoCur
                    /\ delivered' = delivered
               /\ it.id \notin Ids(queue')
       /\ (pc[Dispatch] = "pq_call" /\ pc'[Dispatch] # "pq_call") =>
            /\ pc'[Dispatch] = "cb"
            /\ cur' = cur
            /\ Len(delivered') = Len(delivered) + 1
            /\ delivered'[Len(delivered')].id = cur.item.id
      ]_vars

\* An item goes to the wildcard callback while the other class has an
\* observer of its own.
C11_Witness ==
    /\ pc[Dispatch] = "cb"
    /\ cur.key = FeedbackCommand
    /\ feedback_functions[cur.item.cls] = Absent
    /\ \E c \in Classes : feedback_functions[c] # Absent

\* C12: the lock is never held while an observer callback is executing; a
\* thread inside report_feedback or set_feedback_observer while a callback is
\* executing, the callback's own thread included, finds the lock free.
C12_NoLockInCallback ==
    /\ inCallback # {} => lock = NoThread
    /\ pc[Dispatch] \in {"rf_lock", "so_lock"} => lock = NoThread

\* A callback is inside set_feedback_observer while the reader thread is
\* inside report_feedback.
C12_Witness ==
    /\ Dispatch \in inCallback
    /\ pc[Dispatch] = "so_lock"
    /\ pc["transport"] = "rf_lock"

\* C13: a callback fault is not suppressed. Once a callback has raised, the
\* dispatch thread is dead with no callback executing, and from then on no
\* item is popped and no callback is invoked.
C13_FaultEndsDispatch ==
    [][/\ (CallbackFault \in results') =>
            /\ pc'[Dispatch] = "dead"
            /\ inCallback' = {}
       /\ (CallbackFault \in results) =>
            /\ delivered' = delivered
            /\ popped' = popped
      ]_vars

\* A callback has raised with an item still in the buffer, and another item
\* reported afterwards.
C13_Witness ==
    /\ pc[Dispatch] = "dead"
    /\ Len(queue) >= 1
    /\ nextId = MaxItems

\* The fields of a line as the protocol defines them, and what each command
\* code stands for.
Fields(text) == Split(RemoveSpaces(text))
ButtonCodes == {<<"R", "B", "P">>, <<"R", "B", "R">>, <<"L", "B", "P">>, <<"L", "B", "R">>}
CordlessCodes == {<<"C", "W", "U">>, <<"C", "G", "S">>}
SystemCodes == {<<"L", "Z", "C">>, <<"M", "B", "P">>} \cup ButtonCodes \cup CordlessCodes
KnownCodes == {<<"!">>} \cup SystemCodes
SystemClasses ==
    {"LocalZoneChange", "MasterControlButtonPress", "RaiseButtonPress",
     "RaiseButtonRelease", "LowerButtonPress", "LowerButtonRelease",
     "CordlessWakingUp", "CordlessGoingToSleep"}
ClassOf(code) ==
    CASE code = <<"!">> -> "Prompt"
      [] code = <<"L", "Z", "C">> -> "LocalZoneChange"
      [] code = <<"M", "B", "P">> -> "MasterControlButtonPress"
      [] code = <<"R", "B", "P">> -> "RaiseButtonPress"
      [] code = <<"R", "B", "R">> -> "RaiseButtonRelease"
      [] code = <<"L", "B", "P">> -> "LowerButtonPress"
      [] code = <<"L", "B", "R">> -> "LowerButtonRelease"
      [] code = <<"C", "W", "U">> -> "CordlessWakingUp"
      [] code = <<"C", "G", "S">> -> "CordlessGoingToSleep"

\* The number of fields, the code included, that a variant extracts by
\* position, and the place after them where the system field goes.
PositionalFields(code) ==
    CASE code = <<"!">> -> 1
      [] code = <<"L", "Z", "C">> -> 3
      [] code = <<"M", "B", "P">> -> 4
      [] code \in ButtonCodes -> 3
      [] code \in CordlessCodes -> 2
SystemPosition(code) == PositionalFields(code) + 1
SystemFields == {<<"S", "1">>, <<"S", "2">>}

\* A line of a known code with all its positional fields valid and, if it has
\* a field at the system position, one that is S1 or S2.
WellFormed(pa) ==
    /\ pa[1] \in KnownCodes
    /\ Len(pa) >= PositionalFields(pa[1])
    /\ pa[1] \in SystemCodes =>
          /\ IsInt(pa[2])
          /\ Len(pa) >= SystemPosition(pa[1]) => pa[SystemPosition(pa[1])] \in SystemFields
    /\ pa[1] = <<"L", "Z", "C">> => pa[3] \in {<<"O", "N">>, <<"O", "F", "F">>, <<"C", "H", "G">>}
    /\ pa[1] \in ButtonCodes \cup {<<"M", "B", "P">>} => IsInt(pa[3])
    /\ pa[1] = <<"M", "B", "P">> => pa[4] \in {<<"O", "N">>, <<"O", "F", "F">>}

\* C14: decoding of well-formed lines. A well-formed line decodes, without an
\* exception, to the class of its code, carrying the line as raw_command, the
\* numbers of its numeric fields, its state token, and as system the digit of
\* its system field or None when it has none; further fields change nothing.
\* The line 'LZC,1 2,ON,S 2' decodes to zone 12, state ON, system 2.
C14_WellFormedDecoding ==
    LET pa == Fields(line)
        code == pa[1]
    IN WellFormed(pa) =>
         /\ ~IsRaised(decoded)
         /\ decoded.class = ClassOf(code)
         /\ decoded.raw_command = line
         /\ DOMAIN decoded =
               {"class", "raw_command", "parsed_args", "command"}
               \cup (IF code \in SystemCodes THEN {"system"} ELSE {})
               \cup (IF code = <<"L", "Z", "C">> THEN {"zone_number", "state"} ELSE {})
               \cup (IF code \in SystemCodes \ {<<"L", "Z", "C">>}
                     THEN {"master_control_number"} ELSE {})
               \cup (IF code \in ButtonCodes \cup {<<"M", "B", "P">>}
                     THEN {"button_number"} ELSE {})
               \cup (IF code = <<"M", "B", "P">> THEN {"state"} ELSE {})
         /\ code \in SystemCodes =>
               decoded.system =
                  IF Len(pa) < SystemPosition(code) THEN None
                  ELSE IF pa[SystemPosition(code)] = <<"S", "1">> THEN Some(1) ELSE Some(2)
         /\ code = <<"L", "Z", "C">> =>
               decoded.zone_number = IntValue(pa[2]) /\ decoded.state = pa[3]
         /\ code \in SystemCodes \ {<<"L", "Z", "C">>} =>
               decoded.master_control_number = IntValue(pa[2])
         /\ code \in ButtonCodes \cup {<<"M", "B", "P">>} =>
               decoded.button_number = IntValue(pa[3])
         /\ code = <<"M", "B", "P">> => decoded.state = pa[4]
         /\ line = <<"L", "Z", "C", ",", "1", " ", "2", ",", "O", "N", ",", "S", " ", "2">> =>
               /\ decoded.zone_number = 12
               /\ decoded.state = <<"O", "N">>
               /\ decoded.system = Some(2)

\* 'LZC,1 2,ON,S 2' followed by one more field has been decoded to a
\* LocalZoneChange of zone 12 in system 2.
C14_Witness ==
    /\ ~IsRaised(decoded)
    /\ decoded.class = "LocalZoneChange"
    /\ Len(decoded.parsed_args) = 5
    /\ decoded.zone_number = 12
    /\ decoded.system = Some(2)

\* C15: the unknown fallback never raises. A line whose code is not in the
\* table, or has fewer fields than its variant extracts by position, decodes
\* to an UnknownFeedback carrying the line, with no exception.
C15_UnknownFallback ==
    LET pa == Fields(line)
    IN (pa[1] \notin KnownCodes \/ Len(pa) < PositionalFields(pa[1])) =>
          /\ ~IsRaised(decoded)
          /\ decoded.class = "UnknownFeedback"
          /\ decoded.raw_command = line

\* C16: the system_number default. For a decoded feedback of a
\* system-carrying variant, system_number is never None: it is 1 when the
\* line has no system field and the field's system when it has one.
C16_SystemNumberDefault ==
    (~IsRaised(decoded) /\ decoded.class \in SystemClasses) =>
        LET pa == Fields(line)
            pos == SystemPosition(pa[1])
        IN /\ system_number(decoded) # None
           /\ Len(pa) < pos => system_number(decoded) = Some(1)
           /\ (Len(pa) >= pos /\ pa[pos] \in SystemFields) =>
                 system_number(decoded) = Some(DigitValue[pa[pos][2]])

\* C17: validation of the system field. A line of a system-carrying code
\* with a field at the system position that is not S1 or S2 makes the
\* decoder raise, and no decoded feedback has a system other than None, 1, 2.
C17_SystemFieldValidated ==
    LET pa == Fields(line)
    IN /\ ( /\ pa[1] \in SystemCodes
            /\ Len(pa) >= SystemPosition(pa[1])
            /\ pa[SystemPosition(pa[1])] \notin SystemFields ) => IsRaised(decoded)
       /\ (~IsRaised(decoded) /\ decoded.class \in SystemClasses) =>
             decoded.system \in {None, Some(1), Some(2)}

\* C18: the outbound system precondition. A call with an explicit system
\* other than 1 or 2 raises with nothing written, and the written line is the
\* command followed by ',S<system>' exactly when the system given is 1 or 2.
C18_OutboundSystemChecked ==
    sent # NoSend =>
       /\ sent.system \notin {None, Some(1), Some(2)} =>
             (sent.raised # "none" /\ sent.written = None)
       /\ sent.system \in {Some(1), Some(2)} =>
             sent.written = Some(sent.command \o <<",", "S">> \o FormatInt(sent.system[1]))
       /\ sent.system = None => sent.written = Some(sent.command)

\* C19: the facade's shutdown order. FeedbackQueue.stop is begun by
\* RadioRA.stop only once the reader thread has ended, so no report_feedback
\* of the reader begins after it; when RadioRA.stop has returned, the reader
\* thread and the dispatch thread have ended and no callback is executing.
C19_ShutdownOrder ==
    /\ nStops > 0 => pc["transport"] = "ended"
    /\ \A r \in results : r.op = "report_feedback" => ~r.late
    /\ RadioStopped =>
          /\ pc["transport"] = "ended"
          /\ ThreadEnded
          /\ inCallback = {}

\* RadioRA.stop has returned after a line was delivered to a callback and
\* another was discarded by the stop.
C19_Witness ==
    /\ RadioStopped
    /\ Len(delivered) >= 1
    /\ discarded # {}

C22_StopInCallback ==
    /\ [][/\ (pc[Dispatch] = "st_lock" /\ pc'[Dispatch] # "st_lock") =>
               /\ pc'[Dispatch] = "st_join"
               /\ ~continue_running'
               /\ queue' = <<>>
               /\ Ids(queue) \subseteq discarded'
          /\ (pc[Dispatch] = "st_join" /\ pc'[Dispatch] # "st_join") =>
               /\ pc'[Dispatch] = "cb"
               /\ [op |-> "stop", late |-> arg[Dispatch].late,
                   result |-> "RuntimeError"] \in results'
          /\ (pc[Dispatch] = "st_join" \/ \E r \in results : r.result = "RuntimeError") =>
               /\ delivered' = delivered
               /\ popped' = popped
         ]_vars
    /\ (pc[Dispatch] = "st_join") ~> ThreadEnded

\* A callback stopped its own queue with an item in the buffer, returned, and
\* the dispatch thread left its loop.
C22_Witness ==
    /\ \E r \in results : r.result = "RuntimeError"
    /\ discarded # {}
    /\ pc[Dispatch] = "done"

\* C23: the wake-event invariant. While the queue is running, the lock is
\* free and the dispatch thread has left the loop of _process_queue and is
\* about to wait or waiting on the event, a non-empty buffer implies that the
\* event is set. The event is cleared only by the holder of the lock, and only
\* when the buffer is empty or the queue is not running.
C23_WakeEvent ==
    /\ []((/\ continue_running
           /\ lock = NoThread
           /\ pc[Dispatch] \in {"pq_return", "wait"}
           /\ queue # <<>>) => check_queue)
    /\ [][(check_queue /\ ~check_queue') =>
             /\ lock = Dispatch
             /\ queue = <<>> \/ ~continue_running
         ]_vars

\* The dispatch thread is suspended on the event when an item is appended:
\* the event is set.
C23_Witness ==
    /\ continue_running
    /\ lock = NoThread
    /\ pc[Dispatch] = "wait"
    /\ queue # <<>>
    /\ check_queue
    /\ popped # {}

\* C24: a faulting callback leaves the lock free. Once a callback has raised
\* the lock is free, and every call of report_feedback, set_feedback_observer
\* or stop that a caller has begun ends: it appends, registers, or returns from
\* join or fails its assert.
C24_FaultLeavesLockFree ==
    /\ [](pc[Dispatch] = "dead" => lock = NoThread)
    /\ \A t \in Callers :
          (pc[Dispatch] = "dead" /\ pc[t] # "idle") ~> (pc[t] = "idle")

\* After a callback raised, a stop() call has returned and a report_feedback
\* call begun after it has returned too.
C24_Witness ==
    /\ pc[Dispatch] = "dead"
    /\ stopsReturned > 0
    /\ [op |-> "report_feedback", late |-> TRUE, result |-> "returned"] \in results

\* C21: the feedback-to-zone lookup is total. For every decoded
\* LocalZoneChange, zone_for_feedback raises nothing and returns the zone
\* registered under the feedback's system (1 when the line has no system
\* field) and zone number, or None when there is none; control_for_feedback
\* does the same for every decoded feedback, with None for a feedback that is
\* not of a master control.
C21_LookupTotal ==
    ~IsRaised(decoded) =>
        LET number == IF "system" \in DOMAIN decoded /\ decoded.system # None
                      THEN decoded.system[1] ELSE 1
            Expected(group, key) ==
                IF number \in DOMAIN group /\ key \in DOMAIN group[number]
                THEN Returned(Some(group[number][key]))
                ELSE Returned(None)
        IN /\ decoded.class = "LocalZoneChange" =>
                 \A g \in DOMAIN SceneGroups :
                     found.zone[g] = Expected(SceneGroups[g], decoded.zone_number)
           /\ \A g \in DOMAIN ControlGroups :
                 found.control[g] =
                    IF IsMasterControlFeedback(decoded)
                    THEN Expected(ControlGroups[g], decoded.master_control_number)
                    ELSE Returned(None)

=============================================================================
